---- MODULE Spec2Model ----
(***************************************************************************)
(* Bank account manager: the account hierarchy (account.py), the CSV       *)
(* persistence adapter (storage.py), the input validators (utils.py) and   *)
(* the handlers of the application window (gui.py).                        *)
(*                                                                         *)
(* Money is a Python float.  A float is modelled as an extended real:      *)
(* a finite value counted exactly in Units (Dollar units to the dollar),   *)
(* or one of nan, +inf, -inf.  Comparison and arithmetic on the special    *)
(* values follow IEEE-754 as Python exposes it; finite arithmetic is       *)
(* exact (binary rounding error is not modelled).                          *)
(*                                                                         *)
(* Text (names, pins) is a sequence of one-character strings.              *)
(***************************************************************************)
EXTENDS Integers, Sequences, FiniteSets, TLC

VARIABLES acc, call, ledger, accounts, store, listed, currentRow, screen, event,
          steps, probe

vars ==
  <<acc, call, ledger, accounts, store, listed, currentRow, screen, event,
    steps, probe>>

(***************************************************************************)
(* Bounds                                                                  *)
(***************************************************************************)
\* successful deposits one account object may receive
MaxDeposits ==
  10

\* largest finite balance, in dollars, an account may be driven to
MaxBalance ==
  160

\* interest credits possible within MaxDeposits deposits
MaxInterest ==
  MaxDeposits \div 5

(***************************************************************************)
(* Floats                                                                  *)
(***************************************************************************)
\* units per cent: every interest credit divides by 50 exactly
Cent ==
  50 ^ MaxInterest

Dollar ==
  100 * Cent

Fin(n) ==
  [k |-> "fin", v |-> n]

NaN ==
  [k |-> "nan", v |-> 0]

PosInf ==
  [k |-> "inf", v |-> 1]

NegInf ==
  [k |-> "inf", v |-> -1]

Zero ==
  Fin(0)

IsNaN(a) ==
  a.k = "nan"

IsFin(a) ==
  a.k = "fin"

\* a < b on floats: false as soon as one side is nan
FLt(a, b) ==
  IF IsNaN(a) \/ IsNaN(b) THEN FALSE
  ELSE IF a.k = "inf" THEN a.v = -1 /\ b # NegInf
  ELSE IF b.k = "inf" THEN b.v = 1
  ELSE a.v < b.v

\* a <= b on floats: false as soon as one side is nan
FLe(a, b) ==
  IF IsNaN(a) \/ IsNaN(b) THEN FALSE
  ELSE a = b \/ FLt(a, b)

FNeg(a) ==
  IF a.k = "inf" THEN [k |-> "inf", v |-> 0 - a.v]
  ELSE IF IsNaN(a) THEN NaN
  ELSE Fin(0 - a.v)

\* a + b on floats: inf + (-inf) is nan
FAdd(a, b) ==
  IF IsNaN(a) \/ IsNaN(b) THEN NaN
  ELSE IF a.k = "inf" /\ b.k = "inf" THEN (IF a.v = b.v THEN a ELSE NaN)
  ELSE IF a.k = "inf" THEN a
  ELSE IF b.k = "inf" THEN b
  ELSE Fin(a.v + b.v)

FSub(a, b) ==
  FAdd(a, FNeg(b))

\* a * (pct / 100) for a positive percentage
FScale(a, pct) ==
  IF IsFin(a) THEN Fin((a.v * pct) \div 100) ELSE a

\* Python's max(a, b): the first argument unless the second compares greater
PyMax(a, b) ==
  IF FLt(a, b) THEN b ELSE a

(***************************************************************************)
(* account.py                                                              *)
(***************************************************************************)
\* SavingAccount.MINIMUM, in dollars
MINIMUM ==
  100

\* SavingAccount.RATE (0.02), in percent
RATE ==
  2

Minimum ==
  Fin(MINIMUM * Dollar)

\* fault: the clamp at zero is dropped
Mut_set_balance_unclamped(self, value) ==
  [self EXCEPT !.balance = value]

\* Account.set_balance: self._account_balance = max(0.0, value)
Account_set_balance(self, value) ==
  [self EXCEPT !.balance = PyMax(Zero, value)]

\* SavingAccount.set_balance: super().set_balance(max(value, MINIMUM))
SavingAccount_set_balance(self, value) ==
  Account_set_balance(self, PyMax(value, Minimum))

\* self.set_balance(value), dispatched on the class of self
set_balance(self, value) ==
  IF self.kind = "Saving" THEN SavingAccount_set_balance(self, value)
  ELSE Account_set_balance(self, value)

\* Account.__init__; a RegularAccount has no _deposit_count (kept at 0)
Account_init(kind, name, pin, balance) ==
  set_balance([kind |-> kind, name |-> name, pin |-> pin,
               balance |-> Zero, deposit_count |-> 0], balance)

\* RegularAccount(name, pin, balance)
RegularAccount(name, pin, balance) ==
  Account_init("Regular", name, pin, balance)

\* SavingAccount(name, pin)
SavingAccount(name, pin) ==
  [Account_init("Saving", name, pin, Minimum) EXCEPT !.deposit_count = 0]

\* fault: the candidate is compared with itself
Mut_check_pin_any(self, pin) ==
  pin = pin

\* Account.check_pin
check_pin(self, pin) ==
  self.pin = pin

\* RegularAccount.deposit
RegularAccount_deposit(self, amount) ==
  IF FLe(amount, Zero) THEN [self |-> self, ret |-> FALSE]
  ELSE [self |-> [self EXCEPT !.balance = FAdd(@, amount)], ret |-> TRUE]

\* fault: the whole balance cannot be withdrawn (amount < balance)
Mut_withdraw_strict(self, amount) ==
  IF FLt(Zero, amount) /\ FLt(amount, self.balance)
  THEN [self |-> [self EXCEPT !.balance = FSub(@, amount)], ret |-> TRUE]
  ELSE [self |-> self, ret |-> FALSE]

\* RegularAccount.withdraw
RegularAccount_withdraw(self, amount) ==
  IF FLt(Zero, amount) /\ FLe(amount, self.balance)
  THEN [self |-> [self EXCEPT !.balance = FSub(@, amount)], ret |-> TRUE]
  ELSE [self |-> self, ret |-> FALSE]

\* SavingAccount._apply_interest
apply_interest(self) ==
  [self EXCEPT !.balance = FAdd(@, FScale(@, RATE))]

\* fault: interest is credited before the amount is added
Mut_deposit_interest_first(self, amount) ==
  IF FLe(amount, Zero) THEN [self |-> self, ret |-> FALSE]
  ELSE LET s1 == [self EXCEPT !.deposit_count = @ + 1]
           s2 == IF s1.deposit_count % 5 = 0 THEN apply_interest(s1) ELSE s1
       IN  [self |-> [s2 EXCEPT !.balance = FAdd(@, amount)], ret |-> TRUE]

\* fault: the deposit is counted before the amount is checked
Mut_deposit_counts_rejected(self, amount) ==
  LET s0 == [self EXCEPT !.deposit_count = @ + 1] IN
  IF FLe(amount, Zero) THEN [self |-> s0, ret |-> FALSE]
  ELSE LET s1 == [s0 EXCEPT !.balance = FAdd(@, amount)]
       IN  [self |-> IF s1.deposit_count % 5 = 0 THEN apply_interest(s1)
                     ELSE s1,
            ret |-> TRUE]

\* SavingAccount.deposit
SavingAccount_deposit(self, amount) ==
  IF FLe(amount, Zero) THEN [self |-> self, ret |-> FALSE]
  ELSE LET s1 == [self EXCEPT !.deposit_count = @ + 1,
                              !.balance = FAdd(@, amount)]
       IN  [self |-> IF s1.deposit_count % 5 = 0 THEN apply_interest(s1)
                     ELSE s1,
            ret |-> TRUE]

\* SavingAccount.withdraw
SavingAccount_withdraw(self, amount) ==
  IF FLe(amount, Zero) \/ FLt(FSub(self.balance, amount), Minimum)
  THEN [self |-> self, ret |-> FALSE]
  ELSE [self |-> [self EXCEPT !.balance = FSub(@, amount)], ret |-> TRUE]

\* acc.deposit(amount), dispatched on the class of acc
deposit(self, amount) ==
  IF self.kind = "Saving" THEN SavingAccount_deposit(self, amount)
  ELSE RegularAccount_deposit(self, amount)

\* acc.withdraw(amount), dispatched on the class of acc
withdraw(self, amount) ==
  IF self.kind = "Saving" THEN SavingAccount_withdraw(self, amount)
  ELSE RegularAccount_withdraw(self, amount)

\* the model follows an account only while its finite balance and its
\* deposit count stay within the bounds
InBounds(self) ==
  /\ self.deposit_count <= MaxDeposits
  /\ IsFin(self.balance) => self.balance.v <= MaxBalance * Dollar

(***************************************************************************)
(* Text and its conversions                                                *)
(***************************************************************************)
Digits ==
  <<"0", "1", "2", "3", "4", "5", "6", "7", "8", "9">>

IsDigit(c) ==
  \E d \in 1..10 : Digits[d] = c

DigitVal(c) ==
  (CHOOSE d \in 1..10 : Digits[d] = c) - 1

\* SUPERSCRIPT TWO (U+00B2), one character: str.isdigit() holds of it, it
\* is no decimal digit (str.isdecimal() fails, float() rejects it)
SuperscriptTwo ==
  "sup2"

\* str.isdigit(): non-empty and every character a digit, decimal or not
isdigit(t) ==
  /\ Len(t) > 0
  /\ \A i \in 1..Len(t) : IsDigit(t[i]) \/ t[i] = SuperscriptTwo

RECURSIVE LStrip(_)
LStrip(t) ==
  IF t # <<>> /\ Head(t) = " " THEN LStrip(Tail(t)) ELSE t

RECURSIVE RStrip(_)
RStrip(t) ==
  IF t # <<>> /\ t[Len(t)] = " " THEN RStrip(SubSeq(t, 1, Len(t) - 1)) ELSE t

\* str.strip()
strip(t) ==
  RStrip(LStrip(t))

\* decimal numeral of a natural number
RECURSIVE NatText(_)
NatText(n) ==
  IF n < 10 THEN <<Digits[n + 1]>>
  ELSE NatText(n \div 10) \o <<Digits[(n % 10) + 1]>>

\* value of a digit string read as a natural number
RECURSIVE NatVal(_)
NatVal(t) ==
  IF t = <<>> THEN 0
  ELSE 10 * NatVal(SubSeq(t, 1, Len(t) - 1)) + DigitVal(t[Len(t)])

RECURSIVE Pow10(_)
Pow10(d) ==
  IF d = 0 THEN 1 ELSE 10 * Pow10(d - 1)

\* f"{x:.2f}": the value rounded to whole cents (a tie goes to the even
\* cent), two decimals; nan and the infinities by name
FormatBalance(x) ==
  IF IsNaN(x) THEN <<"n", "a", "n">>
  ELSE IF x = PosInf THEN <<"i", "n", "f">>
  ELSE IF x = NegInf THEN <<"-", "i", "n", "f">>
  ELSE LET a == IF x.v < 0 THEN 0 - x.v ELSE x.v
           q == a \div Cent
           r == a % Cent
           cents == IF 2 * r > Cent \/ (2 * r = Cent /\ q % 2 = 1)
                    THEN q + 1 ELSE q
           frac == cents % 100
       IN  (IF x.v < 0 THEN <<"-">> ELSE <<>>)
             \o NatText(cents \div 100) \o <<".">>
             \o <<Digits[(frac \div 10) + 1], Digits[(frac % 10) + 1]>>

\* position of the decimal point in t, 0 when there is none
PointAt(t) ==
  IF \E i \in 1..Len(t) : t[i] = "."
  THEN CHOOSE i \in 1..Len(t) : t[i] = "."
  ELSE 0

\* an unsigned decimal numeral: digits, optionally a point, at least one
\* digit in all
IsDecimal(t) ==
  LET p == PointAt(t)
      ip == IF p = 0 THEN t ELSE SubSeq(t, 1, p - 1)
      fp == IF p = 0 THEN <<>> ELSE SubSeq(t, p + 1, Len(t))
  IN  /\ \A i \in 1..Len(ip) : IsDigit(ip[i])
      /\ \A i \in 1..Len(fp) : IsDigit(fp[i])
      /\ Len(ip) + Len(fp) > 0

\* value in Units of an unsigned decimal numeral (exact for numerals of
\* at most MaxInterest + 2 decimals)
DecimalVal(t) ==
  LET p == PointAt(t)
      ip == IF p = 0 THEN t ELSE SubSeq(t, 1, p - 1)
      fp == IF p = 0 THEN <<>> ELSE SubSeq(t, p + 1, Len(t))
  IN  NatVal(ip) * Dollar + NatVal(fp) * (Dollar \div Pow10(Len(fp)))

\* the missing value None, distinct from every text
None ==
  <<"None">>

\* float(x) for a text x (or None): val on success, err names the exception.
\* Understood: surrounding blanks, a sign, decimal numerals, nan, inf.
float(x) ==
  IF x = None THEN [err |-> "TypeError", val |-> Zero]
  ELSE
    LET t == strip(x)
        signed == t # <<>> /\ Head(t) \in {"-", "+"}
        neg == t # <<>> /\ Head(t) = "-"
        body == IF signed THEN Tail(t) ELSE t
    IN  IF body = <<"n", "a", "n">> THEN [err |-> "", val |-> NaN]
        ELSE IF body = <<"i", "n", "f">>
          THEN [err |-> "", val |-> IF neg THEN NegInf ELSE PosInf]
        ELSE IF IsDecimal(body)
          THEN [err |-> "",
                val |-> Fin(IF neg THEN 0 - DecimalVal(body)
                            ELSE DecimalVal(body))]
        ELSE [err |-> "ValueError", val |-> Zero]

(***************************************************************************)
(* utils.py                                                                *)
(***************************************************************************)
\* longest accepted name
MaxNameLen ==
  50

\* required pin length
PinLen ==
  4

\* validate_amount: ok is false where the function raises ValueError
validate_amount(value) ==
  LET f == float(value) IN
  IF f.err # "" THEN [ok |-> FALSE, val |-> Zero]
  ELSE IF FLe(f.val, Zero) THEN [ok |-> FALSE, val |-> Zero]
  ELSE [ok |-> TRUE, val |-> f.val]

\* fault: the name is returned as entered
Mut_validate_name_untrimmed(value) ==
  LET name == strip(value) IN
  IF name = <<>> THEN [ok |-> FALSE, val |-> <<>>]
  ELSE IF Len(name) > MaxNameLen THEN [ok |-> FALSE, val |-> <<>>]
  ELSE [ok |-> TRUE, val |-> value]

\* fault: the length is taken before trimming
Mut_validate_name_raw_length(value) ==
  LET name == strip(value) IN
  IF name = <<>> THEN [ok |-> FALSE, val |-> <<>>]
  ELSE IF Len(value) > MaxNameLen THEN [ok |-> FALSE, val |-> <<>>]
  ELSE [ok |-> TRUE, val |-> name]

\* validate_name: ok is false where the function raises ValueError
validate_name(value) ==
  LET name == strip(value) IN
  IF name = <<>> THEN [ok |-> FALSE, val |-> <<>>]
  ELSE IF Len(name) > MaxNameLen THEN [ok |-> FALSE, val |-> <<>>]
  ELSE [ok |-> TRUE, val |-> name]

\* validate_pin: ok is false where the function raises ValueError
validate_pin(value) ==
  LET pin == strip(value) IN
  IF ~isdigit(pin) \/ Len(pin) # PinLen THEN [ok |-> FALSE, val |-> <<>>]
  ELSE [ok |-> TRUE, val |-> pin]

(***************************************************************************)
(* storage.py                                                              *)
(* The file at CSV_PATH is [exists, header, rows]: the header line as the  *)
(* sequence of its column names and each later line as the sequence of its *)
(* fields (the csv module's quoting is transparent to field values).  An   *)
(* empty file has header <<>> and no rows.                                 *)
(***************************************************************************)
fieldnames ==
  <<"type", "name", "balance", "pin">>

SavingText ==
  <<"S", "a", "v", "i", "n", "g">>

RegularText ==
  <<"R", "e", "g", "u", "l", "a", "r">>

NoFile ==
  [exists |-> FALSE, header |-> <<>>, rows |-> <<>>]

\* csv.DictReader row lookup, row.get(col, default): the field under the
\* last header column named col; None when the line is too short to have
\* it; default when the header has no such column
RowGet(header, fields, col, default) ==
  IF \E i \in 1..Len(header) : header[i] = col
  THEN LET i == CHOOSE j \in 1..Len(header) :
                  /\ header[j] = col
                  /\ \A k \in (j + 1)..Len(header) : header[k] # col
       IN  IF i <= Len(fields) THEN fields[i] ELSE None
  ELSE default

\* fault: a Saving row gets its stored balance back
Mut_LoadRow_restores_saving(header, fields) ==
  LET name == RowGet(header, fields, "name", <<>>)
      pin == RowGet(header, fields, "pin", <<>>)
      f == float(RowGet(header, fields, "balance", <<"0">>))
      balance == IF f.err = "ValueError" THEN Zero ELSE f.val
      acc_type == RowGet(header, fields, "type", RegularText)
  IN  IF f.err = "TypeError" THEN [ok |-> FALSE, acc |-> <<>>]
      ELSE IF acc_type = SavingText
        THEN [ok |-> TRUE,
              acc |-> set_balance(SavingAccount(name, pin), balance)]
        ELSE [ok |-> TRUE,
              acc |-> set_balance(RegularAccount(name, pin, Zero), balance)]

\* body of the loop in load_accounts for one row: the account built, or
\* the exception that leaves the loop
LoadRow(header, fields) ==
  LET name == RowGet(header, fields, "name", <<>>)
      pin == RowGet(header, fields, "pin", <<>>)
      f == float(RowGet(header, fields, "balance", <<"0">>))
      balance == IF f.err = "ValueError" THEN Zero ELSE f.val
      acc_type == RowGet(header, fields, "type", RegularText)
  IN  IF f.err = "TypeError" THEN [ok |-> FALSE, acc |-> <<>>]
      ELSE IF acc_type = SavingText
        THEN [ok |-> TRUE, acc |-> SavingAccount(name, pin)]
        ELSE [ok |-> TRUE,
              acc |-> set_balance(RegularAccount(name, pin, Zero), balance)]

\* the loop of load_accounts; csv.DictReader skips lines without fields
RECURSIVE LoadRows(_, _)
LoadRows(header, rows) ==
  IF rows = <<>> THEN [ok |-> TRUE, accounts |-> <<>>]
  ELSE IF Head(rows) = <<>> THEN LoadRows(header, Tail(rows))
  ELSE LET r == LoadRow(header, Head(rows)) IN
       IF ~r.ok THEN [ok |-> FALSE, accounts |-> <<>>]
       ELSE LET rest == LoadRows(header, Tail(rows)) IN
            IF ~rest.ok THEN rest
            ELSE [ok |-> TRUE, accounts |-> <<r.acc>> \o rest.accounts]

\* load_accounts: ok is false where it raises IOError; readable is false
\* when opening or reading the file fails
load_accounts(file, readable) ==
  IF ~file.exists THEN [ok |-> TRUE, accounts |-> <<>>]
  ELSE IF ~readable THEN [ok |-> FALSE, accounts |-> <<>>]
  ELSE LoadRows(file.header, file.rows)

\* csv.writer writes None as the empty field
CsvField(x) ==
  IF x = None THEN <<>> ELSE x

\* the row save_accounts writes for one account
SaveRow(a) ==
  <<IF a.kind = "Saving" THEN SavingText ELSE RegularText,
    CsvField(a.name),
    FormatBalance(a.balance),
    CsvField(a.pin)>>

\* fault: the file is opened for appending
Mut_save_appends(accs, file, io) ==
  IF io = "ok"
  THEN [ok |-> TRUE,
        file |-> [exists |-> TRUE,
                  header |-> IF file.header = <<>> THEN fieldnames
                             ELSE file.header,
                  rows |-> (IF file.header = <<>> THEN <<>>
                            ELSE Append(file.rows,
                                        [i \in 1..4 |-> <<fieldnames[i]>>]))
                           \o [i \in 1..Len(accs) |-> SaveRow(accs[i])]]]
  ELSE [ok |-> FALSE, file |-> file]

\* fault: an empty list is not written
Mut_save_skips_empty(accs, file, io) ==
  IF accs = <<>> THEN [ok |-> TRUE, file |-> file]
  ELSE IF io = "ok"
  THEN [ok |-> TRUE,
        file |-> [exists |-> TRUE, header |-> fieldnames,
                  rows |-> [i \in 1..Len(accs) |-> SaveRow(accs[i])]]]
  ELSE IF io = "open" THEN [ok |-> FALSE, file |-> file]
  ELSE [ok |-> FALSE,
        file |-> [exists |-> TRUE, header |-> <<>>, rows |-> <<>>]]

\* fault: a failure to write is swallowed
Mut_save_swallows_errors(accs, file, io) ==
  IF io = "ok"
  THEN [ok |-> TRUE,
        file |-> [exists |-> TRUE, header |-> fieldnames,
                  rows |-> [i \in 1..Len(accs) |-> SaveRow(accs[i])]]]
  ELSE IF io = "open" THEN [ok |-> TRUE, file |-> file]
  ELSE [ok |-> TRUE,
        file |-> [exists |-> TRUE, header |-> <<>>, rows |-> <<>>]]

\* save_accounts: ok is false where it raises IOError.  io = "ok": the file
\* is replaced; "open": opening for writing fails, the file is untouched;
\* "write": the file was truncated by the open and writing then fails
save_accounts(accs, file, io) ==
  IF io = "ok"
  THEN [ok |-> TRUE,
        file |-> [exists |-> TRUE, header |-> fieldnames,
                  rows |-> [i \in 1..Len(accs) |-> SaveRow(accs[i])]]]
  ELSE IF io = "open" THEN [ok |-> FALSE, file |-> file]
  ELSE [ok |-> FALSE,
        file |-> [exists |-> TRUE, header |-> <<>>, rows |-> <<>>]]

(***************************************************************************)
(* One account object driven through its public methods                    *)
(*   acc     the object                                                    *)
(*   call    the last call: method, argument, return value, object before  *)
(*   ledger  history: net finite amount moved by successful deposits and   *)
(*           withdrawals since construction, and whether the balance was   *)
(*           only ever moved by finite deposits and withdrawals            *)
(***************************************************************************)
AName ==
  <<"B", "o", "b">>

APin ==
  <<"4", "3", "2", "1">>

OtherPin ==
  <<"0", "0", "0", "0">>

\* float arguments the methods are called with
Values ==
  {NegInf, Fin(0 - 10 * Dollar), Zero, Fin(10 * Dollar), Fin(50 * Dollar),
   PosInf, NaN}

NoCallPin ==
  <<>>

guiVars ==
  <<listed, currentRow, screen, event, steps>>

shellVars ==
  <<accounts, store, guiVars, probe>>

accountVars ==
  <<acc, call, ledger>>

AccountIdle ==
  /\ acc = <<>>
  /\ call = <<>>
  /\ ledger = <<>>

NoProbe ==
  [op |-> "none"]

NoEvent ==
  [handler |-> "none", status |-> "done", saved |-> FALSE, save_ok |-> FALSE,
   mem |-> <<>>, file |-> NoFile, sel |-> -1, pin |-> <<>>, amount |-> <<>>,
   name |-> <<>>, saving |-> FALSE, raised |-> FALSE]

\* the window before the application is launched
GuiIdle ==
  /\ listed = 0
  /\ currentRow = -1
  /\ screen = "off"
  /\ event = NoEvent
  /\ steps = 0

ShellIdle ==
  /\ accounts = <<>>
  /\ store = NoFile
  /\ GuiIdle

AccountInit ==
  /\ \E b \in Values :
       /\ \/ acc = RegularAccount(AName, APin, b)
          \/ acc = SavingAccount(AName, APin)
       /\ call = [op |-> "init", arg |-> b, pin |-> NoCallPin, ret |-> TRUE,
                  pre |-> acc]
  /\ ledger = [net |-> 0, clean |-> TRUE]
  /\ ShellIdle
  /\ probe = NoProbe

Unclean ==
  [net |-> 0, clean |-> FALSE]

Moved(amount, sign, ok) ==
  IF ~ok THEN ledger
  ELSE IF ledger.clean /\ IsFin(amount) /\ IsFin(acc.balance)
       THEN [ledger EXCEPT !.net = @ + sign * amount.v]
       ELSE Unclean

CallDeposit(amount) ==
  LET r == deposit(acc, amount) IN
  /\ InBounds(r.self)
  /\ acc' = r.self
  /\ call' = [op |-> "deposit", arg |-> amount, pin |-> NoCallPin,
              ret |-> r.ret, pre |-> acc]
  /\ ledger' = Moved(amount, 1, r.ret)
  /\ UNCHANGED shellVars

CallWithdraw(amount) ==
  LET r == withdraw(acc, amount) IN
  /\ acc' = r.self
  /\ call' = [op |-> "withdraw", arg |-> amount, pin |-> NoCallPin,
              ret |-> r.ret, pre |-> acc]
  /\ ledger' = Moved(amount, -1, r.ret)
  /\ UNCHANGED shellVars

CallSetBalance(value) ==
  /\ acc' = set_balance(acc, value)
  /\ call' = [op |-> "set_balance", arg |-> value, pin |-> NoCallPin,
              ret |-> TRUE, pre |-> acc]
  /\ ledger' = Unclean
  /\ UNCHANGED shellVars

CallCheckPin(pin) ==
  /\ acc' = acc
  /\ call' = [op |-> "check_pin", arg |-> Zero, pin |-> pin,
              ret |-> check_pin(acc, pin), pre |-> acc]
  /\ UNCHANGED <<ledger, shellVars>>

AccountNext ==
  \/ \E a \in Values : CallDeposit(a)
  \/ \E a \in Values : CallWithdraw(a)
  \/ \E v \in Values : CallSetBalance(v)
  \/ \E p \in {APin, OtherPin} : CallCheckPin(p)

SpecAccount ==
  AccountInit /\ [][AccountNext]_vars

(***************************************************************************)
(* The persistence adapter driven from an arbitrary file (SpecStorage)     *)
(*   accounts  the list held by the caller                                 *)
(*   store     the file                                                    *)
(*   probe     the last call: op ("load", "save", "deposit", with          *)
(*             "_failed" appended when it raised), the op before it, the   *)
(*             list before a load, the file before a save, the number of   *)
(*             load-then-save round trips completed in a row (up to 2),    *)
(*             and for a load whether the file could be opened and read    *)
(***************************************************************************)
\* rows of a file found at start-up
MaxRows ==
  2

Bob ==
  <<"B", "o", "b">>

Alice ==
  <<" ", "A", "l">>

Pin1 ==
  <<"1", "2", "3", "4">>

\* lines as csv.DictReader splits them
RowSamples ==
  { <<SavingText, Bob, <<"1", "5", "3", ".", "0", "0">>, APin>>,
    <<RegularText, Alice, <<"5", "0", ".", "0", "0">>, Pin1>>,
    <<RegularText, Alice, <<"1", "2", ".", "3", "4", "7">>, Pin1, <<"x">>>>,
    <<RegularText, Bob, <<"-", "5">>>>,
    <<RegularText, Bob, <<"n", "a", "n">>, Pin1>>,
    <<RegularText, Bob, <<"i", "n", "f">>, Pin1>>,
    <<<<"s", "a", "v", "i", "n", "g">>, Bob, <<>>, <<>>>>,
    <<RegularText, Bob>>,
    <<>> }

RECURSIVE SeqsUpTo(_, _)
SeqsUpTo(S, n) ==
  IF n = 0 THEN {<<>>}
  ELSE LET shorter == SeqsUpTo(S, n - 1)
       IN  shorter \cup {Append(q, x) : q \in shorter, x \in S}

\* files found at start-up: none, empty, written with the usual header,
\* or with a header lacking the type and balance columns
InitFiles ==
  {NoFile, [exists |-> TRUE, header |-> <<>>, rows |-> <<>>]}
    \cup {[exists |-> TRUE, header |-> fieldnames, rows |-> rs] :
            rs \in SeqsUpTo(RowSamples, MaxRows)}
    \cup {[exists |-> TRUE, header |-> <<"name", "pin">>,
           rows |-> <<<<Bob, Pin1>>, <<Alice>>>>]}

StorageInit ==
  /\ accounts = <<>>
  /\ store \in InitFiles
  /\ probe = [op |-> "none", after |-> "none", trips |-> 0,
              mem |-> <<>>, file |-> NoFile, readable |-> TRUE]
  /\ GuiIdle
  /\ AccountIdle

\* accounts = load_accounts()
StorageLoad(readable) ==
  LET r == load_accounts(store, readable) IN
  /\ accounts' = IF r.ok THEN r.accounts ELSE accounts
  /\ probe' = [op |-> IF r.ok THEN "load" ELSE "load_failed",
               after |-> probe.op,
               trips |-> IF r.ok THEN probe.trips ELSE 0,
               mem |-> accounts, file |-> NoFile, readable |-> readable]
  /\ UNCHANGED <<store, guiVars, accountVars>>

\* save_accounts(accounts)
StorageSave(io) ==
  LET r == save_accounts(accounts, store, io) IN
  /\ store' = r.file
  /\ probe' = [op |-> IF r.ok THEN "save" ELSE "save_failed",
               after |-> probe.op,
               trips |-> IF r.ok /\ probe.op = "load"
                         THEN (IF probe.trips < 2 THEN probe.trips + 1 ELSE 2)
                         ELSE 0,
               mem |-> <<>>, file |-> store, readable |-> TRUE]
  /\ UNCHANGED <<accounts, guiVars, accountVars>>

\* accounts[0].deposit(amount): a successful deposit into the first
\* account when it is a savings account (the balances of regular accounts
\* vary through the files)
StorageDeposit(amount) ==
  LET r == deposit(accounts[1], amount) IN
  /\ accounts # <<>>
  /\ accounts[1].kind = "Saving"
  /\ r.ret
  /\ InBounds(r.self)
  /\ accounts' = [accounts EXCEPT ![1] = r.self]
  /\ probe' = [op |-> "deposit", after |-> probe.op, trips |-> 0,
               mem |-> <<>>, file |-> NoFile, readable |-> TRUE]
  /\ UNCHANGED <<store, guiVars, accountVars>>

StorageNext ==
  \/ \E readable \in BOOLEAN : StorageLoad(readable)
  \/ \E io \in {"ok", "open", "write"} : StorageSave(io)
  \/ StorageDeposit(Fin(10 * Dollar))

SpecStorage ==
  StorageInit /\ [][StorageNext]_vars

(***************************************************************************)
(* gui.py: the application window (Spec, SpecIO)                           *)
(*   accounts    BankApp.accounts                                          *)
(*   store       the file at CSV_PATH                                      *)
(*   listed      number of items in main_screen.account_list               *)
(*   currentRow  account_list.currentRow(), -1 when nothing is selected    *)
(*   screen      "off" (not running), "main" or "create"                   *)
(*   event       the last handler run: its name, how it ended, whether it  *)
(*               called save_accounts and whether that succeeded, the list *)
(*               and the file before it, and the inputs it read (for a     *)
(*               creation the name text and the kind asked for), and       *)
(*               whether an exception left the handler                     *)
(*   steps       history: successful creations and transactions so far,    *)
(*               plus two for each handler run in which a file operation   *)
(*               failed                                                    *)
(***************************************************************************)
\* accounts one session may hold
MaxAccounts ==
  2

\* successful creations and transactions followed, a failed file
\* operation counting for two
MaxSteps ==
  4

\* texts of CreateAccountScreen.name_input
NameTexts ==
  {Alice, <<" ">>}

\* texts of CreateAccountScreen.pin_input (digits only: QIntValidator)
CreatePinTexts ==
  {Pin1, <<"1", "2">>}

\* texts of MainScreen.pin_input
PinTexts ==
  {Pin1, APin, <<>>}

\* texts of MainScreen.amount_input (QDoubleValidator lets "0" and "" stand)
AmountTexts ==
  {<<"5", "0">>, <<"0">>, <<>>}

\* files found when the application is launched
ShellFiles ==
  { NoFile,
    [exists |-> TRUE, header |-> fieldnames,
     rows |-> << <<SavingText, Bob, <<"1", "5", "3", ".", "0", "0">>, APin>>,
                 <<RegularText, Alice, <<"5", "0", ".", "0", "0">>, Pin1>> >>],
    [exists |-> TRUE, header |-> fieldnames,
     rows |-> << <<RegularText, Bob, <<"5", "0", ".", "0", "0">>, Pin1>>,
                 <<RegularText, Bob>> >>] }

\* the environment of one handler run: whether the file can be read, how
\* writing it goes, and whether the application aborts when an exception
\* leaves a handler
Healthy ==
  {[readable |-> TRUE, io |-> "ok", abort |-> FALSE]}

Faulty ==
  Healthy \cup
  { [readable |-> FALSE, io |-> "ok", abort |-> FALSE],
    [readable |-> TRUE, io |-> "open", abort |-> FALSE],
    [readable |-> TRUE, io |-> "write", abort |-> FALSE],
    [readable |-> TRUE, io |-> "open", abort |-> TRUE] }

Ev(handler, status, saved, save_ok, pin, amount) ==
  [handler |-> handler, status |-> status, saved |-> saved,
   save_ok |-> save_ok, mem |-> accounts, file |-> store,
   sel |-> currentRow, pin |-> pin, amount |-> amount,
   name |-> <<>>, saving |-> FALSE, raised |-> FALSE]

ShellInit ==
  /\ accounts = <<>>
  /\ store \in ShellFiles
  /\ GuiIdle
  /\ probe = NoProbe
  /\ AccountIdle

\* BankApp._refresh_main on the list accs: the list widget is rebuilt
\* (which clears the selection), then save_accounts runs
RefreshMain(accs, env, to_screen) ==
  LET sv == save_accounts(accs, store, env.io) IN
  /\ listed' = Len(accs)
  /\ currentRow' = -1
  /\ store' = sv.file
  /\ screen' = IF ~sv.ok /\ env.abort THEN "off" ELSE to_screen

\* BankApp.__init__; an exception leaving it ends the launch
Launch(env) ==
  LET r == load_accounts(store, env.readable)
      accs == IF r.ok THEN r.accounts ELSE <<>>
      sv == save_accounts(accs, store, env.io)
      failed == (store.exists /\ ~env.readable) \/ ~sv.ok
  IN  /\ screen = "off"
      /\ Len(accs) <= MaxAccounts
      /\ failed => steps + 1 < MaxSteps
      /\ steps' = IF failed THEN steps + 2 ELSE steps
      /\ accounts' = IF sv.ok THEN accs ELSE <<>>
      /\ listed' = IF sv.ok THEN Len(accs) ELSE 0
      /\ currentRow' = -1
      /\ store' = sv.file
      /\ screen' = IF sv.ok THEN "main" ELSE "off"
      /\ event' = [Ev("init", IF r.ok THEN "done" ELSE "load_failed", TRUE,
                      sv.ok, <<>>, <<>>)
                     EXCEPT !.raised = ~sv.ok]
      /\ UNCHANGED <<probe, accountVars>>

\* BankApp.show_create
ShowCreate ==
  /\ screen = "main"
  /\ screen' = "create"
  /\ event' = Ev("show_create", "done", FALSE, FALSE, <<>>, <<>>)
  /\ UNCHANGED <<accounts, store, listed, currentRow, steps, probe,
                 accountVars>>

\* BankApp.show_main
ShowMain(env) ==
  /\ screen = "create"
  /\ RefreshMain(accounts, env, "main")
  /\ ~save_accounts(accounts, store, env.io).ok => steps + 1 < MaxSteps
  /\ steps' = IF save_accounts(accounts, store, env.io).ok THEN steps
              ELSE steps + 2
  /\ event' = [Ev("show_main", "done", TRUE,
                  save_accounts(accounts, store, env.io).ok, <<>>, <<>>)
                 EXCEPT !.raised = ~save_accounts(accounts, store, env.io).ok]
  /\ UNCHANGED <<accounts, probe, accountVars>>

\* the user clicks an item of the account list
SelectRow(i) ==
  /\ screen = "main"
  /\ i \in 0..(listed - 1)
  /\ currentRow' = i
  /\ UNCHANGED <<accounts, store, listed, screen, event, steps, probe,
                 accountVars>>

\* BankApp._create_account
CreateAccount(name, pin, saving) ==
  LET vn == validate_name(name)
      vp == validate_pin(pin)
      new == IF saving THEN SavingAccount(vn.val, vp.val)
             ELSE RegularAccount(vn.val, vp.val, Zero)
      made == vn.ok /\ vp.ok
  IN  /\ screen = "create"
      /\ made => (Len(accounts) < MaxAccounts /\ steps < MaxSteps)
      /\ accounts' = IF made THEN Append(accounts, new) ELSE accounts
      /\ steps' = IF made THEN steps + 1 ELSE steps
      /\ event' = [Ev("create",
                      IF ~vn.ok THEN "bad_name"
                      ELSE IF ~vp.ok THEN "bad_pin" ELSE "done",
                      FALSE, FALSE, pin, <<>>)
                     EXCEPT !.name = name, !.saving = saving]
      /\ UNCHANGED <<store, listed, currentRow, screen, probe, accountVars>>

\* fault: the first account is taken whatever row is selected
Mut_SelectedIndex_first ==
  IF 0 <= currentRow /\ currentRow < Len(accounts) THEN 1 ELSE 0

\* BankApp._get_selected_account: index into accounts, 0 for None
SelectedIndex ==
  IF 0 <= currentRow /\ currentRow < Len(accounts) THEN currentRow + 1 ELSE 0

\* BankApp._verify_and_perform(action)
VerifyAndPerform(action, pin, amount, env) ==
  LET i == SelectedIndex
      va == validate_amount(amount)
      r == IF action = "deposit" THEN deposit(accounts[i], va.val)
           ELSE withdraw(accounts[i], va.val)
      quiet == /\ env \in Healthy
               /\ UNCHANGED <<accounts, store, listed, currentRow, screen,
                              steps>>
  IN  /\ screen = "main"
      /\ UNCHANGED <<probe, accountVars>>
      /\ IF i = 0
         THEN /\ event' = Ev(action, "no_account", FALSE, FALSE, pin, amount)
              /\ quiet
         ELSE IF ~check_pin(accounts[i], pin)
         THEN /\ event' = Ev(action, "bad_pin", FALSE, FALSE, pin, amount)
              /\ quiet
         ELSE IF ~va.ok
         THEN /\ event' = Ev(action, "bad_amount", FALSE, FALSE, pin, amount)
              /\ quiet
         ELSE IF ~r.ret
         THEN /\ event' = Ev(action, "failed", FALSE, FALSE, pin, amount)
              /\ quiet
         ELSE /\ InBounds(r.self)
              /\ steps < MaxSteps
              /\ env.io # "ok" => steps + 2 < MaxSteps
              /\ steps' = IF env.io = "ok" THEN steps + 1 ELSE steps + 3
              /\ accounts' = [accounts EXCEPT ![i] = r.self]
              /\ RefreshMain(accounts', env, "main")
              /\ event' =
                   [Ev(action, "done", TRUE,
                       save_accounts(accounts', store, env.io).ok, pin, amount)
                    EXCEPT !.raised =
                             ~save_accounts(accounts', store, env.io).ok]

\* the window is closed: the process ends and the list in memory is gone
Quit ==
  /\ screen # "off"
  /\ accounts' = <<>>
  /\ listed' = 0
  /\ currentRow' = -1
  /\ screen' = "off"
  /\ event' = Ev("quit", "done", FALSE, FALSE, <<>>, <<>>)
  /\ UNCHANGED <<store, steps, probe, accountVars>>

ShellNext(Envs) ==
  \/ \E env \in Envs : Launch(env)
  \/ ShowCreate
  \/ \E env \in Envs : env.readable /\ ShowMain(env)
  \/ \E i \in 0..(MaxAccounts - 1) : SelectRow(i)
  \/ \E name \in NameTexts, pin \in CreatePinTexts, saving \in BOOLEAN :
       CreateAccount(name, pin, saving)
  \/ \E action \in {"deposit", "withdraw"}, pin \in PinTexts,
        amount \in AmountTexts, env \in Envs :
       env.readable /\ VerifyAndPerform(action, pin, amount, env)
  \/ Quit

Next ==
  ShellNext(Healthy)

NextIO ==
  ShellNext(Faulty)

\* the application with a file system that works
Spec ==
  ShellInit /\ [][Next]_vars

\* the application not yet launched, beside a file that holds records
ShellInitIO ==
  /\ accounts = <<>>
  /\ store \in {f \in ShellFiles : f.rows # <<>>}
  /\ GuiIdle
  /\ probe = NoProbe
  /\ AccountIdle

\* the application with a file system that may fail
SpecIO ==
  ShellInitIO /\ [][NextIO]_vars

\* an account object driven through its methods, or the application with
\* a file system that works
FrameNext ==
  \/ call # <<>> /\ AccountNext
  \/ call = <<>> /\ Next

FrameInit ==
  AccountInit \/ ShellInit

SpecFrame ==
  FrameInit /\ [][FrameNext]_vars

(***************************************************************************)
(* The validators of utils.py applied to entered texts (SpecValidate)      *)
(*   probe  the text drawn, then the last call: the validator, its         *)
(*          argument, whether it returned (ok) and what                    *)
(***************************************************************************)
\* longest pin text tried
MaxPinText ==
  6

\* blanks tried on each side of a name
MaxPad ==
  1

\* characters over the longest accepted name tried
MaxExcess ==
  1

\* n times the character c
Repeat(c, n) ==
  [i \in 1..n |-> c]

\* pin texts: every text of blanks, a decimal digit, a letter and a
\* non-decimal digit
PinInputs ==
  UNION {[1..n -> {" ", "1", "a", SuperscriptTwo}] : n \in 0..MaxPinText}

\* name texts: a run of letters, possibly with a blank inside, between
\* blanks
NameInputs ==
  {Repeat(" ", l) \o body \o Repeat(" ", r) :
     l \in 0..MaxPad, r \in 0..MaxPad,
     body \in {Repeat("x", n) : n \in 0..(MaxNameLen + MaxExcess)}
               \cup {<<"x", " ">> \o Repeat("x", n) :
                       n \in (MaxNameLen - 3)..(MaxNameLen - 1)}}

ValidateInit ==
  /\ probe \in [op : {"input"}, arg : PinInputs \cup NameInputs,
                 ok : {FALSE}, val : {<<>>}]
  /\ ShellIdle
  /\ AccountIdle

\* validate_pin(arg)
CallValidatePin ==
  /\ probe' = [op |-> "validate_pin", arg |-> probe.arg,
               ok |-> validate_pin(probe.arg).ok,
               val |-> validate_pin(probe.arg).val]
  /\ UNCHANGED <<accounts, store, guiVars, accountVars>>

\* validate_name(arg)
CallValidateName ==
  /\ probe' = [op |-> "validate_name", arg |-> probe.arg,
               ok |-> validate_name(probe.arg).ok,
               val |-> validate_name(probe.arg).val]
  /\ UNCHANGED <<accounts, store, guiVars, accountVars>>

ValidateNext ==
  \/ CallValidatePin
  \/ CallValidateName

SpecValidate ==
  ValidateInit /\ [][ValidateNext]_vars

(***************************************************************************)
(* Properties of one account (SpecAccount)                                 *)
(***************************************************************************)
\* C1: a SavingAccount's balance is never below MINIMUM, from construction
\* on and after any sequence of deposit, withdraw and set_balance calls
\* with arbitrary arguments.
C1_SavingNeverBelowMinimum ==
  acc.kind = "Saving" => ~FLt(acc.balance, Minimum)

\* C2: a RegularAccount's balance is never negative, whatever balance it
\* was constructed with and whatever calls followed.
C2_RegularNeverNegative ==
  acc.kind = "Regular" => ~FLt(acc.balance, Zero)

C2_Witness ==
  /\ acc.kind = "Regular"
  /\ call.op = "set_balance"
  /\ FLt(call.arg, Zero)
  /\ FLt(Zero, call.pre.balance)
  /\ acc.balance = Zero

\* C3: deposit(amount) and withdraw(amount) with amount <= 0 return false
\* and leave the whole object unchanged (balance and, for a SavingAccount,
\* the deposit count).
C3_NonPositiveRejected ==
  (call.op \in {"deposit", "withdraw"} /\ FLe(call.arg, Zero))
    => (call.ret = FALSE /\ acc = call.pre)

C3_Witness ==
  /\ acc.kind = "Saving"
  /\ call.op = "deposit"
  /\ FLe(call.arg, Zero)
  /\ acc.deposit_count = 4

\* C4: RegularAccount.withdraw(amount) returns true iff 0 < amount <=
\* balance; on true the balance becomes balance - amount (the whole balance
\* withdrawn leaves 0), on false the balance is unchanged.
C4_RegularWithdraw ==
  (call.op = "withdraw" /\ call.pre.kind = "Regular") =>
    /\ call.ret = (FLt(Zero, call.arg) /\ FLe(call.arg, call.pre.balance))
    /\ call.ret => acc.balance = FSub(call.pre.balance, call.arg)
    /\ (call.ret /\ IsFin(call.arg) /\ call.arg = call.pre.balance)
         => acc.balance = Zero
    /\ ~call.ret => acc.balance = call.pre.balance

C4_Witness ==
  /\ call.op = "withdraw"
  /\ call.pre.kind = "Regular"
  /\ call.ret
  /\ call.arg = call.pre.balance
  /\ acc.balance = Zero

\* C5: SavingAccount.withdraw(amount) returns true iff amount > 0 and
\* balance - amount >= MINIMUM; on true the balance becomes balance -
\* amount, on false it is unchanged; the deposit count never changes.
C5_SavingWithdraw ==
  (call.op = "withdraw" /\ call.pre.kind = "Saving") =>
    /\ call.ret = (/\ FLt(Zero, call.arg)
                   /\ FLe(Minimum, FSub(call.pre.balance, call.arg)))
    /\ call.ret => acc.balance = FSub(call.pre.balance, call.arg)
    /\ ~call.ret => acc.balance = call.pre.balance
    /\ acc.deposit_count = call.pre.deposit_count

\* C6: a SavingAccount's successful deposit adds the amount and, exactly
\* when it is the 5th, 10th, ... successful deposit, also credits RATE of
\* the balance that already includes the amount; rejected deposits and
\* withdrawals do not advance the count.  From a fresh account moved only
\* by finite deposits and withdrawals, the balance is 100 + net before the
\* 5th deposit and (100 + net) * 1.02 right after it.
C6_InterestEveryFifth ==
  /\ (call.op = "deposit" /\ call.pre.kind = "Saving" /\ call.ret) =>
       LET b1 == FAdd(call.pre.balance, call.arg) IN
       /\ acc.deposit_count = call.pre.deposit_count + 1
       /\ acc.balance = IF acc.deposit_count % 5 = 0
                        THEN FAdd(b1, FScale(b1, RATE))
                        ELSE b1
  /\ (call.op \in {"deposit", "withdraw"} /\ call.pre.kind = "Saving"
        /\ ~(call.op = "deposit" /\ call.ret))
       => acc.deposit_count = call.pre.deposit_count
  /\ (acc.kind = "Saving" /\ ledger.clean /\ acc.deposit_count < 5)
       => acc.balance = Fin(MINIMUM * Dollar + ledger.net)
  /\ (acc.kind = "Saving" /\ ledger.clean /\ acc.deposit_count = 5
        /\ call.op = "deposit" /\ call.ret)
       => LET total == MINIMUM * Dollar + ledger.net
          IN  acc.balance = Fin(total + total \div 50)

\* five deposits of 10 into a fresh SavingAccount: 153.0
C6_Witness ==
  /\ acc.kind = "Saving"
  /\ ledger = [net |-> 50 * Dollar, clean |-> TRUE]
  /\ call.op = "deposit"
  /\ call.pre.balance = Fin(140 * Dollar)
  /\ acc.deposit_count = 5
  /\ acc.balance = Fin(153 * Dollar)

(***************************************************************************)
(* Properties of the persistence adapter (SpecStorage)                     *)
(***************************************************************************)
\* C9: a load that follows a save of the list gives every savings account
\* balance exactly MINIMUM and deposit count 0, whatever its balance and
\* deposit count were when saved, and gives a Regular account the balance
\* its record stores.
C9_SavingResetOnLoad ==
  (probe.op = "load" /\ probe.after = "save") =>
    /\ Len(accounts) = Len(probe.mem)
    /\ \A i \in 1..Len(accounts) :
         IF probe.mem[i].kind = "Saving"
         THEN /\ accounts[i].kind = "Saving"
              /\ accounts[i].balance = Minimum
              /\ accounts[i].deposit_count = 0
         ELSE /\ accounts[i].kind = "Regular"
              /\ FormatBalance(accounts[i].balance) = store.rows[i][3]

C9_Witness ==
  /\ probe.op = "load"
  /\ probe.after = "save"
  /\ \E i \in 1..Len(accounts) :
       /\ probe.mem[i].kind = "Saving"
       /\ probe.mem[i].balance = Fin(153 * Dollar)
       /\ probe.mem[i].deposit_count = 5
       /\ accounts[i].balance = Minimum
  /\ \E j \in 1..Len(accounts) :
       /\ accounts[j].kind = "Regular"
       /\ accounts[j].balance = Fin(50 * Dollar)

\* C10: once a file has been loaded and saved back, loading and saving it
\* again leaves exactly the same file (rows, order and fields).
C10_RoundTripIdempotent ==
  (probe.op = "save" /\ probe.trips = 2) => store = probe.file

C10_Witness ==
  /\ probe.op = "save"
  /\ probe.trips = 2
  /\ store = probe.file
  /\ \E i \in 1..Len(store.rows) : store.rows[i][1] = SavingText
  /\ \E i \in 1..Len(store.rows) :
       /\ store.rows[i][1] = RegularText
       /\ store.rows[i][3] = <<"1", "2", ".", "3", "5">>

\* a balance that is a whole number of cents
WholeCents(b) ==
  IsFin(b) /\ b.v % Cent = 0

\* C11: a load that follows a save returns a list of the same length and
\* order as the saved list, the i-th account having the kind, name and pin
\* of the i-th saved account, and, when that is a Regular account whose
\* balance is a whole number of cents, its balance.
C11_SaveThenLoad ==
  (probe.op = "load" /\ probe.after = "save") =>
    /\ Len(accounts) = Len(probe.mem)
    /\ \A i \in 1..Len(probe.mem) :
         /\ i <= Len(accounts)
         /\ accounts[i].kind = probe.mem[i].kind
         /\ accounts[i].name = probe.mem[i].name
         /\ accounts[i].pin = probe.mem[i].pin
         /\ (probe.mem[i].kind = "Regular" /\ WholeCents(probe.mem[i].balance))
              => accounts[i].balance = probe.mem[i].balance

\* the file rows a load turns into accounts: the lines that have fields
RECURSIVE Records(_)
Records(rows) ==
  IF rows = <<>> THEN <<>>
  ELSE IF Head(rows) = <<>> THEN Records(Tail(rows))
  ELSE <<Head(rows)>> \o Records(Tail(rows))

\* the balance field of a record is absent or is no number
BalanceFaulty(header, fields) ==
  float(RowGet(header, fields, "balance", <<"0">>)).err # ""

\* C12: a load of a file that can be opened and read does not raise
\* whatever the shape of its records: every record gives one account, in
\* order, and a non-Saving record whose balance field is missing (the line
\* is shorter than the header) or unparsable gives an account of balance 0.
C12_BalanceFaultTolerated ==
  (probe.op \in {"load", "load_failed"} /\ probe.readable /\ store.exists) =>
    LET recs == Records(store.rows) IN
    /\ probe.op = "load"
    /\ Len(accounts) = Len(recs)
    /\ \A i \in 1..Len(recs) :
         (/\ BalanceFaulty(store.header, recs[i])
          /\ RowGet(store.header, recs[i], "type", RegularText) # SavingText)
           => (i <= Len(accounts) /\ accounts[i].balance = Zero)

(***************************************************************************)
(* Properties of the application window (Spec)                             *)
(***************************************************************************)
\* C7: when a handler has created an account or completed a deposit or a
\* withdrawal, it has called save_accounts and the file holds exactly one
\* record per account in memory, in order, with the current fields.
C7_SavedAfterEveryMutation ==
  (event.handler \in {"create", "deposit", "withdraw"}
     /\ event.status = "done") =>
    /\ event.saved
    /\ store.exists
    /\ store.header = fieldnames
    /\ Len(store.rows) = Len(accounts)
    /\ \A i \in 1..Len(accounts) :
         store.rows[i] = <<IF accounts[i].kind = "Saving" THEN SavingText
                           ELSE RegularText,
                           accounts[i].name,
                           FormatBalance(accounts[i].balance),
                           accounts[i].pin>>

\* C8: a deposit or withdraw button checks, in this order, that an account
\* is selected, that the entered PIN is the account's, and that the amount
\* text is a positive number; the list changes only when all three hold,
\* and whenever the handler ends without a completed transaction the list,
\* the file and the save count are as before.
C8_TransactionGuarded ==
  event.handler \in {"deposit", "withdraw"} =>
    LET has == 0 <= event.sel /\ event.sel < Len(event.mem)
        pinok == event.mem[event.sel + 1].pin = event.pin
        f == float(event.amount)
        positive == f.err = "" /\ FLt(Zero, f.val)
    IN  /\ (event.status = "no_account") = ~has
        /\ (event.status = "bad_pin") = (has /\ ~pinok)
        /\ (event.status = "bad_amount") = (has /\ pinok /\ ~positive)
        /\ accounts # event.mem =>
             (event.status = "done" /\ has /\ pinok /\ positive)
        /\ event.status # "done" =>
             (accounts = event.mem /\ store = event.file /\ ~event.saved)

\* a wrong PIN together with an invalid amount is reported as a wrong PIN
C8_Witness ==
  /\ event.handler = "deposit"
  /\ event.status = "bad_pin"
  /\ 0 <= event.sel
  /\ event.sel < Len(accounts)
  /\ accounts[event.sel + 1].pin # event.pin
  /\ event.amount = <<"0">>
  /\ accounts = event.mem
  /\ store = event.file
  /\ Len(accounts) = 2

\* C13: a creation validates the name, then the pin; when either is
\* rejected the list is as before; when both pass, the list is the list
\* before followed by one new account of the kind asked for, with the
\* trimmed name and pin, deposit count 0 and balance 0 (Regular) or
\* exactly MINIMUM (Saving).
C13_CreateValidatesThenAppends ==
  event.handler = "create" =>
    LET name == strip(event.name)
        pin == strip(event.pin)
        nameok == name # <<>> /\ Len(name) <= MaxNameLen
        pinok == Len(pin) = PinLen /\ \A k \in 1..Len(pin) : IsDigit(pin[k])
        n == Len(event.mem)
    IN  /\ (event.status = "bad_name") = ~nameok
        /\ (event.status = "bad_pin") = (nameok /\ ~pinok)
        /\ (event.status = "done") = (nameok /\ pinok)
        /\ ~(nameok /\ pinok) => accounts = event.mem
        /\ (nameok /\ pinok) =>
             /\ Len(accounts) = n + 1
             /\ SubSeq(accounts, 1, n) = event.mem
             /\ accounts[n + 1] =
                  [kind |-> IF event.saving THEN "Saving" ELSE "Regular",
                   name |-> name, pin |-> pin,
                   balance |-> IF event.saving THEN Fin(100 * Dollar) ELSE Zero,
                   deposit_count |-> 0]

\* a savings account created behind an existing account, from a name
\* entered with a leading blank
C13_Witness ==
  /\ event.handler = "create"
  /\ event.status = "done"
  /\ event.saving
  /\ event.name # strip(event.name)
  /\ Len(event.mem) = 1
  /\ Len(accounts) = 2
  /\ accounts[1] = event.mem[1]
  /\ accounts[2].kind = "Saving"
  /\ accounts[2].name = strip(event.name)
  /\ accounts[2].balance = Fin(100 * Dollar)

(***************************************************************************)
(* Properties of the application window when files may fail (SpecIO)       *)
(***************************************************************************)
\* the file holds one record per account of the list, in order, with the
\* account's current fields
Matches(file, accs) ==
  /\ file.exists
  /\ file.header = fieldnames
  /\ Len(file.rows) = Len(accs)
  /\ \A i \in 1..Len(accs) :
       file.rows[i] = <<IF accs[i].kind = "Saving" THEN SavingText
                        ELSE RegularText,
                        CsvField(accs[i].name),
                        FormatBalance(accs[i].balance),
                        CsvField(accs[i].pin)>>

\* C14: when the save of a completed deposit or withdrawal fails, the
\* selected account keeps the balance and deposit count the transaction
\* gave it, a file that matched the list before the transaction no longer
\* matches it, and the exception leaves the handler; and whenever a
\* handler's save succeeds the file matches the list, whatever failed
\* before.
C14_SaveFailureNotRolledBack ==
  /\ (event.handler \in {"deposit", "withdraw"}
        /\ event.saved /\ ~event.save_ok) =>
       LET i == event.sel + 1
           a == validate_amount(event.amount).val
           r == IF event.handler = "deposit" THEN deposit(event.mem[i], a)
                ELSE withdraw(event.mem[i], a)
       IN  /\ event.status = "done"
           /\ event.raised
           /\ r.ret
           /\ accounts = [event.mem EXCEPT ![i] = r.self]
           /\ accounts[i].balance # event.mem[i].balance
           /\ Matches(event.file, event.mem) => ~Matches(store, accounts)
  /\ (event.saved /\ event.save_ok) =>
       (~event.raised /\ Matches(store, accounts))

\* a savings deposit whose save could not open the file: the window is
\* still up, the account has its new balance and count, the file is as
\* before
C14_Witness ==
  /\ event.handler = "deposit"
  /\ event.saved
  /\ ~event.save_ok
  /\ event.raised
  /\ screen = "main"
  /\ store = event.file
  /\ Matches(event.file, event.mem)
  /\ ~Matches(store, accounts)
  /\ accounts[event.sel + 1].kind = "Saving"
  /\ accounts[event.sel + 1].deposit_count
       = event.mem[event.sel + 1].deposit_count + 1
  /\ FLt(event.mem[event.sel + 1].balance, accounts[event.sel + 1].balance)

\* C18: when load_accounts raises during start-up, the start-up goes on
\* with an empty list and its refresh saves that list: unless this save
\* fails, the session starts with no account and the file is left with the
\* header line only, so the records that were not loaded are gone.
C18_FailedLoadOverwritesStore ==
  (event.handler = "init" /\ event.status = "load_failed") =>
    /\ event.file.exists
    /\ event.saved
    /\ accounts = <<>>
    /\ event.save_ok =>
         /\ screen = "main"
         /\ listed = 0
         /\ store = [exists |-> TRUE, header |-> fieldnames, rows |-> <<>>]

\* a file of two records that could not be read at start-up
C18_Witness ==
  /\ event.handler = "init"
  /\ event.status = "load_failed"
  /\ event.save_ok
  /\ Len(event.file.rows) = 2
  /\ accounts = <<>>
  /\ screen = "main"
  /\ store.rows = <<>>
  /\ store.header = fieldnames

(***************************************************************************)
(* Properties of the validators (SpecValidate)                             *)
(***************************************************************************)
\* C15: validate_pin returns exactly when its argument is, between blanks,
\* 4 characters that are all decimal digits, and it then returns those 4
\* characters; otherwise it raises.
C15_ValidatePin ==
  probe.op = "validate_pin" =>
    LET t == probe.arg
        Shape(a) ==
          /\ a + 4 <= Len(t)
          /\ \A k \in 1..a : t[k] = " "
          /\ \A k \in (a + 5)..Len(t) : t[k] = " "
          /\ \A k \in (a + 1)..(a + 4) : IsDigit(t[k])
    IN  /\ probe.ok = (\E a \in 0..Len(t) : Shape(a))
        /\ \A a \in 0..Len(t) :
             (Shape(a) /\ probe.ok) => probe.val = SubSeq(t, a + 1, a + 4)

\* C16: validate_name returns exactly when its argument holds, between
\* blanks, a text of 1 to 50 characters that neither starts nor ends with
\* a blank, and it then returns that text; otherwise it raises.
C16_ValidateName ==
  probe.op = "validate_name" =>
    LET t == probe.arg
        n == Len(t)
        Shape(a, b) ==
          /\ a + b < n
          /\ \A k \in 1..a : t[k] = " "
          /\ \A k \in (n - b + 1)..n : t[k] = " "
          /\ t[a + 1] # " "
          /\ t[n - b] # " "
    IN  /\ probe.ok = (\E a, b \in 0..n : Shape(a, b) /\ n - a - b <= 50)
        /\ \A a, b \in 0..n :
             (Shape(a, b) /\ probe.ok) => probe.val = SubSeq(t, a + 1, n - b)

\* a name of 50 characters entered with a blank on each side
C16_Witness ==
  /\ probe.op = "validate_name"
  /\ probe.ok
  /\ Len(probe.arg) = 52
  /\ probe.arg[1] = " "
  /\ probe.arg[52] = " "
  /\ Len(probe.val) = 50
  /\ probe.val = SubSeq(probe.arg, 2, 51)

(***************************************************************************)
(* Properties of set_balance and of what operations leave alone            *)
(***************************************************************************)
\* C17: set_balance(value) leaves a RegularAccount with balance
\* max(0, value) and a SavingAccount with balance max(value, MINIMUM), max
\* being Python's; the constructors set the balance through it; the name,
\* the pin and the deposit count are as before.
C17_SetBalance ==
  /\ call.op = "set_balance" =>
       /\ acc.balance = IF call.pre.kind = "Regular"
                        THEN PyMax(Zero, call.arg)
                        ELSE PyMax(call.arg, Fin(100 * Dollar))
       /\ acc.deposit_count = call.pre.deposit_count
       /\ acc.name = call.pre.name
       /\ acc.pin = call.pre.pin
  /\ call.op = "init" =>
       acc.balance = IF acc.kind = "Regular" THEN PyMax(Zero, call.arg)
                     ELSE Fin(100 * Dollar)

\* C19: deposit, withdraw, set_balance and check_pin leave the pin, the
\* name and the kind of the account as they were; check_pin leaves the
\* whole account as it was and answers true exactly when the candidate is
\* the stored pin; a deposit or withdraw button leaves every account other
\* than the selected one as it was and where it was, and the selected one
\* with its name, pin and kind.
C19_Frame ==
  /\ (call # <<>>
        /\ call.op \in {"deposit", "withdraw", "set_balance", "check_pin"}) =>
       /\ acc.pin = call.pre.pin
       /\ acc.name = call.pre.name
       /\ acc.kind = call.pre.kind
       /\ call.op = "check_pin" =>
            (acc = call.pre /\ call.ret = (call.pre.pin = call.pin))
  /\ event.handler \in {"deposit", "withdraw"} =>
       /\ Len(accounts) = Len(event.mem)
       /\ \A i \in 1..Len(event.mem) :
            IF i = event.sel + 1
            THEN /\ accounts[i].name = event.mem[i].name
                 /\ accounts[i].pin = event.mem[i].pin
                 /\ accounts[i].kind = event.mem[i].kind
            ELSE accounts[i] = event.mem[i]

\* a completed transaction on the second of two accounts
C19_Witness ==
  /\ event.handler \in {"deposit", "withdraw"}
  /\ event.status = "done"
  /\ event.sel = 1
  /\ Len(accounts) = 2
  /\ accounts[1] = event.mem[1]
  /\ accounts[2].balance # event.mem[2].balance
  /\ accounts[2].pin = event.mem[2].pin
  /\ accounts[1].pin # accounts[2].pin

====
